---- MODULE Spec2Model ----
(***************************************************************************)
(* Model of scripts/generate-nj-towns.js: the NJ town-list discovery, the  *)
(* per-town business extraction, the batch orchestrator (main), and the    *)
(* single-town (Trenton) script that follows it in the same file.          *)
(*                                                                         *)
(* A JavaScript string is a sequence of one-character strings, so that the *)
(* regular-expression replacements, slices and prefix tests of the source  *)
(* are computed character by character.  A tag mapping is a function whose *)
(* domain is the set of keys present.                                      *)
(***************************************************************************)
EXTENDS Integers, Sequences, FiniteSets, TLC

VARIABLES
    pc,              \* position of main(): start, discover, loop, fetching, sleep, done, fatal
    run,             \* number of the current invocation of the script
    townsListFile,   \* TOWNS_LIST_FILE: [exists, content]
    dataFiles,       \* DATA_DIR: slug -> townData written by generateDataFile
    contentFiles,    \* CONTENT_DIR: slug -> front matter written by generateContentFile
    towns,           \* main's `towns`
    i,               \* outer loop variable of main (start of the batch)
    j,               \* position of the for-of loop inside the batch
    totalProcessed, totalSkipped, totalBusinesses, totalErrors,
    summary,         \* <<>> until the summary block is printed, then <<the block>>
    discovered,      \* history: <<>>, or <<the answer to this run's discovery query>>
    fetched,         \* history: the slugs a per-town query was issued for, this run
    written,         \* history: the per-town files written, this run
    handled,         \* history: the results processTown returned, this run
    prevSummary,     \* history: the summary block of the previous run
    startFiles,      \* history: the data files present when this run started
    timeline,        \* history: the calls of processTown and of sleep, this run
    fn, arg, ret     \* the function applied to `arg` last, and what it returned

vars == <<pc, run, townsListFile, dataFiles, contentFiles, towns, i, j,
          totalProcessed, totalSkipped, totalBusinesses, totalErrors, summary,
          discovered, fetched, written, handled, prevSummary, startFiles, timeline, fn, arg, ret>>

orchVars == <<pc, run, townsListFile, dataFiles, contentFiles, towns, i, j,
              totalProcessed, totalSkipped, totalBusinesses, totalErrors, summary,
              discovered, fetched, written, handled, prevSummary, startFiles, timeline>>

-----------------------------------------------------------------------------
(* Characters and strings *)

LowerLetters == <<"a","b","c","d","e","f","g","h","i","j","k","l","m",
                  "n","o","p","q","r","s","t","u","v","w","x","y","z">>
UpperLetters == <<"A","B","C","D","E","F","G","H","I","J","K","L","M",
                  "N","O","P","Q","R","S","T","U","V","W","X","Y","Z">>
DigitChars == <<"0","1","2","3","4","5","6","7","8","9">>

Range(s) == {s[k] : k \in DOMAIN s}

IsLower(c) == c \in Range(LowerLetters)
IsUpper(c) == c \in Range(UpperLetters)
IsDigit(c) == c \in Range(DigitChars)
\* the characters of the model's alphabet that the regular expression \s matches
Spaces == {" ", "\t"}
IsSpace(c) == c \in Spaces

IndexOf(c, s) == CHOOSE k \in DOMAIN s : s[k] = c

\* String.prototype.toLowerCase / toUpperCase, one character
LowerChar(c) == IF IsUpper(c) THEN LowerLetters[IndexOf(c, UpperLetters)] ELSE c
UpperChar(c) == IF IsLower(c) THEN UpperLetters[IndexOf(c, LowerLetters)] ELSE c

toLowerCase(s) == [k \in DOMAIN s |-> LowerChar(s[k])]

slice(s, from) == SubSeq(s, from + 1, Len(s))
slice2(s, from, to) == SubSeq(s, from + 1, IF to < Len(s) THEN to ELSE Len(s))

startsWith(s, p) == Len(s) >= Len(p) /\ SubSeq(s, 1, Len(p)) = p

\* s.replace(/[<chars>]+/g, by): every maximal run of characters of the class
\* becomes the one string `by`
ReplaceRuns(s, chars, by) ==
    LET out[k \in 0..Len(s)] ==
            IF k = 0 THEN <<>>
            ELSE out[k - 1] \o (IF s[k] \in chars
                                THEN IF k > 1 /\ s[k - 1] \in chars THEN <<>> ELSE by
                                ELSE <<s[k]>>)
    IN out[Len(s)]

\* s.replace(/[<chars>]/g, by): every character of the class replaced on its own
ReplaceEach(s, chars, by) == [k \in DOMAIN s |-> IF s[k] \in chars THEN by ELSE s[k]]

\* s.replace(/[^<chars>]/g, ''): every character outside the class removed
KeepOnly(s, chars) == SelectSeq(s, LAMBDA c : c \in chars)

\* String.prototype.trim: leading and trailing white space removed
RECURSIVE TrimLeft(_)
TrimLeft(s) == IF s # <<>> /\ IsSpace(Head(s)) THEN TrimLeft(Tail(s)) ELSE s
RECURSIVE TrimRight(_)
TrimRight(s) ==
    IF s # <<>> /\ IsSpace(s[Len(s)]) THEN TrimRight(SubSeq(s, 1, Len(s) - 1)) ELSE s
trim(s) == TrimLeft(TrimRight(s))

\* parts.join(sep)
RECURSIVE join(_, _)
join(parts, sep) ==
    IF parts = <<>> THEN <<>>
    ELSE IF Len(parts) = 1 THEN parts[1]
    ELSE parts[1] \o sep \o join(Tail(parts), sep)

-----------------------------------------------------------------------------
(* slugify and the identifier of a town *)

IsHyphen(c) == c = "-"
\* the class a-z0-9\s-
SlugChars == Range(LowerLetters) \cup Range(DigitChars) \cup Spaces \cup {"-"}

slugify(name) ==
    trim(ReplaceRuns(ReplaceRuns(KeepOnly(toLowerCase(name), SlugChars),
                                 Spaces, <<"-">>),
                     {"-"}, <<"-">>))

\* name.replace(/<suffix>$/i, '')
StripSuffix(name, suffix) ==
    IF Len(name) >= Len(suffix)
       /\ toLowerCase(SubSeq(name, Len(name) - Len(suffix) + 1, Len(name)))
            = toLowerCase(suffix)
    THEN SubSeq(name, 1, Len(name) - Len(suffix))
    ELSE name

TownshipSuffix == <<" ","T","o","w","n","s","h","i","p">>
BoroughSuffix == <<" ","B","o","r","o","u","g","h">>
CitySuffix == <<" ","C","i","t","y">>
StateSuffix == <<"-","n","j">>

cleanName(name) ==
    StripSuffix(StripSuffix(StripSuffix(name, TownshipSuffix), BoroughSuffix), CitySuffix)

townSlug(name) == slugify(cleanName(name)) \o StateSuffix

-----------------------------------------------------------------------------
(* Category classifier *)

\* the object literal of the orchestrator script, one <<key, label>> per property, in order
categoryMap == <<
    <<<<"r","e","s","t","a","u","r","a","n","t">>, <<"R","e","s","t","a","u","r","a","n","t">>>>,
    <<<<"c","a","f","e">>, <<"C","a","f","e">>>>,
    <<<<"b","a","r">>, <<"B","a","r">>>>,
    <<<<"p","u","b">>, <<"P","u","b">>>>,
    <<<<"f","a","s","t","_","f","o","o","d">>, <<"F","a","s","t"," ","F","o","o","d">>>>,
    <<<<"b","a","n","k">>, <<"B","a","n","k">>>>,
    <<<<"p","h","a","r","m","a","c","y">>, <<"P","h","a","r","m","a","c","y">>>>,
    <<<<"h","o","s","p","i","t","a","l">>, <<"H","o","s","p","i","t","a","l">>>>,
    <<<<"c","l","i","n","i","c">>, <<"C","l","i","n","i","c">>>>,
    <<<<"d","o","c","t","o","r","s">>, <<"D","o","c","t","o","r">>>>,
    <<<<"d","e","n","t","i","s","t">>, <<"D","e","n","t","i","s","t">>>>,
    <<<<"v","e","t","e","r","i","n","a","r","y">>, <<"V","e","t","e","r","i","n","a","r","y">>>>,
    <<<<"s","c","h","o","o","l">>, <<"S","c","h","o","o","l">>>>,
    <<<<"l","i","b","r","a","r","y">>, <<"L","i","b","r","a","r","y">>>>,
    <<<<"p","o","s","t","_","o","f","f","i","c","e">>, <<"P","o","s","t"," ","O","f","f","i","c","e">>>>,
    <<<<"f","u","e","l">>, <<"G","a","s"," ","S","t","a","t","i","o","n">>>>,
    <<<<"c","a","r","_","w","a","s","h">>, <<"C","a","r"," ","W","a","s","h">>>>,
    <<<<"c","a","r","_","r","e","p","a","i","r">>, <<"A","u","t","o"," ","R","e","p","a","i","r">>>>,
    <<<<"p","a","r","k","i","n","g">>, <<"P","a","r","k","i","n","g">>>>,
    <<<<"p","l","a","c","e","_","o","f","_","w","o","r","s","h","i","p">>, <<"P","l","a","c","e"," ","o","f"," ","W","o","r","s","h","i","p">>>>,
    <<<<"t","h","e","a","t","r","e">>, <<"T","h","e","a","t","r","e">>>>,
    <<<<"c","i","n","e","m","a">>, <<"C","i","n","e","m","a">>>>,
    <<<<"n","i","g","h","t","c","l","u","b">>, <<"N","i","g","h","t","c","l","u","b">>>>,
    <<<<"g","y","m">>, <<"G","y","m">>>>,
    <<<<"c","o","m","m","u","n","i","t","y","_","c","e","n","t","r","e">>, <<"C","o","m","m","u","n","i","t","y"," ","C","e","n","t","e","r">>>>,
    <<<<"s","o","c","i","a","l","_","f","a","c","i","l","i","t","y">>, <<"S","o","c","i","a","l"," ","S","e","r","v","i","c","e","s">>>>,
    <<<<"c","h","i","l","d","c","a","r","e">>, <<"C","h","i","l","d","c","a","r","e">>>>,
    <<<<"s","u","p","e","r","m","a","r","k","e","t">>, <<"S","u","p","e","r","m","a","r","k","e","t">>>>,
    <<<<"c","o","n","v","e","n","i","e","n","c","e">>, <<"C","o","n","v","e","n","i","e","n","c","e"," ","S","t","o","r","e">>>>,
    <<<<"b","a","k","e","r","y">>, <<"B","a","k","e","r","y">>>>,
    <<<<"b","u","t","c","h","e","r">>, <<"B","u","t","c","h","e","r">>>>,
    <<<<"g","r","o","c","e","r","y">>, <<"G","r","o","c","e","r","y"," ","S","t","o","r","e">>>>,
    <<<<"d","e","l","i">>, <<"D","e","l","i">>>>,
    <<<<"c","l","o","t","h","e","s">>, <<"C","l","o","t","h","i","n","g"," ","S","t","o","r","e">>>>,
    <<<<"s","h","o","e","s">>, <<"S","h","o","e"," ","S","t","o","r","e">>>>,
    <<<<"j","e","w","e","l","r","y">>, <<"J","e","w","e","l","r","y"," ","S","t","o","r","e">>>>,
    <<<<"e","l","e","c","t","r","o","n","i","c","s">>, <<"E","l","e","c","t","r","o","n","i","c","s"," ","S","t","o","r","e">>>>,
    <<<<"h","a","r","d","w","a","r","e">>, <<"H","a","r","d","w","a","r","e"," ","S","t","o","r","e">>>>,
    <<<<"f","u","r","n","i","t","u","r","e">>, <<"F","u","r","n","i","t","u","r","e"," ","S","t","o","r","e">>>>,
    <<<<"c","a","r">>, <<"C","a","r"," ","D","e","a","l","e","r","s","h","i","p">>>>,
    <<<<"c","a","r","_","p","a","r","t","s">>, <<"A","u","t","o"," ","P","a","r","t","s">>>>,
    <<<<"b","i","c","y","c","l","e">>, <<"B","i","c","y","c","l","e"," ","S","h","o","p">>>>,
    <<<<"b","e","a","u","t","y">>, <<"B","e","a","u","t","y"," ","S","a","l","o","n">>>>,
    <<<<"h","a","i","r","d","r","e","s","s","e","r">>, <<"H","a","i","r"," ","S","a","l","o","n">>>>,
    <<<<"o","p","t","i","c","i","a","n">>, <<"O","p","t","i","c","i","a","n">>>>,
    <<<<"f","l","o","r","i","s","t">>, <<"F","l","o","r","i","s","t">>>>,
    <<<<"g","i","f","t">>, <<"G","i","f","t"," ","S","h","o","p">>>>,
    <<<<"b","o","o","k","s">>, <<"B","o","o","k","s","t","o","r","e">>>>,
    <<<<"a","l","c","o","h","o","l">>, <<"L","i","q","u","o","r"," ","S","t","o","r","e">>>>,
    <<<<"t","o","b","a","c","c","o">>, <<"T","o","b","a","c","c","o"," ","S","h","o","p">>>>,
    <<<<"l","a","u","n","d","r","y">>, <<"L","a","u","n","d","r","o","m","a","t">>>>,
    <<<<"d","r","y","_","c","l","e","a","n","i","n","g">>, <<"D","r","y"," ","C","l","e","a","n","i","n","g">>>>,
    <<<<"m","o","b","i","l","e","_","p","h","o","n","e">>, <<"M","o","b","i","l","e"," ","P","h","o","n","e"," ","S","t","o","r","e">>>>,
    <<<<"c","o","m","p","u","t","e","r">>, <<"C","o","m","p","u","t","e","r"," ","S","t","o","r","e">>>>,
    <<<<"d","e","p","a","r","t","m","e","n","t","_","s","t","o","r","e">>, <<"D","e","p","a","r","t","m","e","n","t"," ","S","t","o","r","e">>>>,
    <<<<"m","a","l","l">>, <<"S","h","o","p","p","i","n","g"," ","M","a","l","l">>>>,
    <<<<"v","a","r","i","e","t","y","_","s","t","o","r","e">>, <<"V","a","r","i","e","t","y"," ","S","t","o","r","e">>>>,
    <<<<"p","e","t">>, <<"P","e","t"," ","S","t","o","r","e">>>>,
    <<<<"t","o","y","s">>, <<"T","o","y"," ","S","t","o","r","e">>>>,
    <<<<"s","p","o","r","t","s">>, <<"S","p","o","r","t","i","n","g"," ","G","o","o","d","s">>>>,
    <<<<"o","u","t","d","o","o","r">>, <<"O","u","t","d","o","o","r"," ","S","t","o","r","e">>>>,
    <<<<"m","u","s","i","c">>, <<"M","u","s","i","c"," ","S","t","o","r","e">>>>,
    <<<<"p","h","o","t","o">>, <<"P","h","o","t","o"," ","S","t","o","r","e">>>>,
    <<<<"t","a","t","t","o","o">>, <<"T","a","t","t","o","o"," ","P","a","r","l","o","r">>>>,
    <<<<"p","a","w","n","b","r","o","k","e","r">>, <<"P","a","w","n"," ","S","h","o","p">>>>,
    <<<<"l","a","w","y","e","r">>, <<"L","a","w"," ","O","f","f","i","c","e">>>>,
    <<<<"a","c","c","o","u","n","t","a","n","t">>, <<"A","c","c","o","u","n","t","a","n","t">>>>,
    <<<<"i","n","s","u","r","a","n","c","e">>, <<"I","n","s","u","r","a","n","c","e">>>>,
    <<<<"e","s","t","a","t","e","_","a","g","e","n","t">>, <<"R","e","a","l"," ","E","s","t","a","t","e">>>>,
    <<<<"e","m","p","l","o","y","m","e","n","t","_","a","g","e","n","c","y">>, <<"E","m","p","l","o","y","m","e","n","t"," ","A","g","e","n","c","y">>>>,
    <<<<"t","r","a","v","e","l","_","a","g","e","n","t">>, <<"T","r","a","v","e","l"," ","A","g","e","n","c","y">>>>,
    <<<<"n","o","t","a","r","y">>, <<"N","o","t","a","r","y">>>>,
    <<<<"t","a","x","_","a","d","v","i","s","o","r">>, <<"T","a","x"," ","A","d","v","i","s","o","r">>>>,
    <<<<"f","i","n","a","n","c","i","a","l">>, <<"F","i","n","a","n","c","i","a","l"," ","S","e","r","v","i","c","e","s">>>>,
    <<<<"p","l","u","m","b","e","r">>, <<"P","l","u","m","b","e","r">>>>,
    <<<<"e","l","e","c","t","r","i","c","i","a","n">>, <<"E","l","e","c","t","r","i","c","i","a","n">>>>,
    <<<<"h","v","a","c">>, <<"H","V","A","C">>>>,
    <<<<"c","a","r","p","e","n","t","e","r">>, <<"C","a","r","p","e","n","t","e","r">>>>,
    <<<<"p","a","i","n","t","e","r">>, <<"P","a","i","n","t","e","r">>>>,
    <<<<"r","o","o","f","e","r">>, <<"R","o","o","f","e","r">>>>,
    <<<<"l","o","c","k","s","m","i","t","h">>, <<"L","o","c","k","s","m","i","t","h">>>>,
    <<<<"h","o","t","e","l">>, <<"H","o","t","e","l">>>>,
    <<<<"m","o","t","e","l">>, <<"M","o","t","e","l">>>>,
    <<<<"g","u","e","s","t","_","h","o","u","s","e">>, <<"G","u","e","s","t"," ","H","o","u","s","e">>>>,
    <<<<"h","o","s","t","e","l">>, <<"H","o","s","t","e","l">>>>,
    <<<<"m","u","s","e","u","m">>, <<"M","u","s","e","u","m">>>>,
    <<<<"a","t","t","r","a","c","t","i","o","n">>, <<"A","t","t","r","a","c","t","i","o","n">>>>
>>

\* the object literal of the single-town script; a key written twice keeps its last label
categoryMap2 == <<
    <<<<"r","e","s","t","a","u","r","a","n","t">>, <<"R","e","s","t","a","u","r","a","n","t">>>>,
    <<<<"c","a","f","e">>, <<"C","a","f","e">>>>,
    <<<<"b","a","r">>, <<"B","a","r">>>>,
    <<<<"p","u","b">>, <<"P","u","b">>>>,
    <<<<"f","a","s","t","_","f","o","o","d">>, <<"F","a","s","t"," ","F","o","o","d">>>>,
    <<<<"b","a","n","k">>, <<"B","a","n","k">>>>,
    <<<<"p","h","a","r","m","a","c","y">>, <<"P","h","a","r","m","a","c","y">>>>,
    <<<<"h","o","s","p","i","t","a","l">>, <<"H","o","s","p","i","t","a","l">>>>,
    <<<<"c","l","i","n","i","c">>, <<"C","l","i","n","i","c">>>>,
    <<<<"d","o","c","t","o","r","s">>, <<"D","o","c","t","o","r">>>>,
    <<<<"d","e","n","t","i","s","t">>, <<"D","e","n","t","i","s","t">>>>,
    <<<<"v","e","t","e","r","i","n","a","r","y">>, <<"V","e","t","e","r","i","n","a","r","y">>>>,
    <<<<"s","c","h","o","o","l">>, <<"S","c","h","o","o","l">>>>,
    <<<<"l","i","b","r","a","r","y">>, <<"L","i","b","r","a","r","y">>>>,
    <<<<"p","o","s","t","_","o","f","f","i","c","e">>, <<"P","o","s","t"," ","O","f","f","i","c","e">>>>,
    <<<<"f","u","e","l">>, <<"G","a","s"," ","S","t","a","t","i","o","n">>>>,
    <<<<"c","a","r","_","w","a","s","h">>, <<"C","a","r"," ","W","a","s","h">>>>,
    <<<<"c","a","r","_","r","e","p","a","i","r">>, <<"A","u","t","o"," ","R","e","p","a","i","r">>>>,
    <<<<"p","a","r","k","i","n","g">>, <<"P","a","r","k","i","n","g">>>>,
    <<<<"p","l","a","c","e","_","o","f","_","w","o","r","s","h","i","p">>, <<"P","l","a","c","e"," ","o","f"," ","W","o","r","s","h","i","p">>>>,
    <<<<"t","h","e","a","t","r","e">>, <<"T","h","e","a","t","r","e">>>>,
    <<<<"c","i","n","e","m","a">>, <<"C","i","n","e","m","a">>>>,
    <<<<"n","i","g","h","t","c","l","u","b">>, <<"N","i","g","h","t","c","l","u","b">>>>,
    <<<<"g","y","m">>, <<"G","y","m">>>>,
    <<<<"c","o","m","m","u","n","i","t","y","_","c","e","n","t","r","e">>, <<"C","o","m","m","u","n","i","t","y"," ","C","e","n","t","e","r">>>>,
    <<<<"s","o","c","i","a","l","_","f","a","c","i","l","i","t","y">>, <<"S","o","c","i","a","l"," ","S","e","r","v","i","c","e","s">>>>,
    <<<<"c","h","i","l","d","c","a","r","e">>, <<"C","h","i","l","d","c","a","r","e">>>>,
    <<<<"s","u","p","e","r","m","a","r","k","e","t">>, <<"S","u","p","e","r","m","a","r","k","e","t">>>>,
    <<<<"c","o","n","v","e","n","i","e","n","c","e">>, <<"C","o","n","v","e","n","i","e","n","c","e"," ","S","t","o","r","e">>>>,
    <<<<"b","a","k","e","r","y">>, <<"B","a","k","e","r","y">>>>,
    <<<<"b","u","t","c","h","e","r">>, <<"B","u","t","c","h","e","r">>>>,
    <<<<"g","r","o","c","e","r","y">>, <<"G","r","o","c","e","r","y"," ","S","t","o","r","e">>>>,
    <<<<"d","e","l","i">>, <<"D","e","l","i">>>>,
    <<<<"c","l","o","t","h","e","s">>, <<"C","l","o","t","h","i","n","g"," ","S","t","o","r","e">>>>,
    <<<<"s","h","o","e","s">>, <<"S","h","o","e"," ","S","t","o","r","e">>>>,
    <<<<"j","e","w","e","l","r","y">>, <<"J","e","w","e","l","r","y"," ","S","t","o","r","e">>>>,
    <<<<"e","l","e","c","t","r","o","n","i","c","s">>, <<"E","l","e","c","t","r","o","n","i","c","s"," ","S","t","o","r","e">>>>,
    <<<<"h","a","r","d","w","a","r","e">>, <<"H","a","r","d","w","a","r","e"," ","S","t","o","r","e">>>>,
    <<<<"f","u","r","n","i","t","u","r","e">>, <<"F","u","r","n","i","t","u","r","e"," ","S","t","o","r","e">>>>,
    <<<<"c","a","r">>, <<"C","a","r"," ","D","e","a","l","e","r","s","h","i","p">>>>,
    <<<<"c","a","r","_","r","e","p","a","i","r">>, <<"A","u","t","o"," ","R","e","p","a","i","r">>>>,
    <<<<"c","a","r","_","p","a","r","t","s">>, <<"A","u","t","o"," ","P","a","r","t","s">>>>,
    <<<<"b","i","c","y","c","l","e">>, <<"B","i","c","y","c","l","e"," ","S","h","o","p">>>>,
    <<<<"b","e","a","u","t","y">>, <<"B","e","a","u","t","y"," ","S","a","l","o","n">>>>,
    <<<<"h","a","i","r","d","r","e","s","s","e","r">>, <<"H","a","i","r"," ","S","a","l","o","n">>>>,
    <<<<"o","p","t","i","c","i","a","n">>, <<"O","p","t","i","c","i","a","n">>>>,
    <<<<"f","l","o","r","i","s","t">>, <<"F","l","o","r","i","s","t">>>>,
    <<<<"g","i","f","t">>, <<"G","i","f","t"," ","S","h","o","p">>>>,
    <<<<"b","o","o","k","s">>, <<"B","o","o","k","s","t","o","r","e">>>>,
    <<<<"a","l","c","o","h","o","l">>, <<"L","i","q","u","o","r"," ","S","t","o","r","e">>>>,
    <<<<"t","o","b","a","c","c","o">>, <<"T","o","b","a","c","c","o"," ","S","h","o","p">>>>,
    <<<<"l","a","u","n","d","r","y">>, <<"L","a","u","n","d","r","o","m","a","t">>>>,
    <<<<"d","r","y","_","c","l","e","a","n","i","n","g">>, <<"D","r","y"," ","C","l","e","a","n","i","n","g">>>>,
    <<<<"m","o","b","i","l","e","_","p","h","o","n","e">>, <<"M","o","b","i","l","e"," ","P","h","o","n","e"," ","S","t","o","r","e">>>>,
    <<<<"c","o","m","p","u","t","e","r">>, <<"C","o","m","p","u","t","e","r"," ","S","t","o","r","e">>>>,
    <<<<"d","e","p","a","r","t","m","e","n","t","_","s","t","o","r","e">>, <<"D","e","p","a","r","t","m","e","n","t"," ","S","t","o","r","e">>>>,
    <<<<"m","a","l","l">>, <<"S","h","o","p","p","i","n","g"," ","M","a","l","l">>>>,
    <<<<"v","a","r","i","e","t","y","_","s","t","o","r","e">>, <<"V","a","r","i","e","t","y"," ","S","t","o","r","e">>>>,
    <<<<"p","e","t">>, <<"P","e","t"," ","S","t","o","r","e">>>>,
    <<<<"t","o","y","s">>, <<"T","o","y"," ","S","t","o","r","e">>>>,
    <<<<"s","p","o","r","t","s">>, <<"S","p","o","r","t","i","n","g"," ","G","o","o","d","s">>>>,
    <<<<"o","u","t","d","o","o","r">>, <<"O","u","t","d","o","o","r"," ","S","t","o","r","e">>>>,
    <<<<"m","u","s","i","c">>, <<"M","u","s","i","c"," ","S","t","o","r","e">>>>,
    <<<<"p","h","o","t","o">>, <<"P","h","o","t","o"," ","S","t","o","r","e">>>>,
    <<<<"t","a","t","t","o","o">>, <<"T","a","t","t","o","o"," ","P","a","r","l","o","r">>>>,
    <<<<"p","a","w","n","b","r","o","k","e","r">>, <<"P","a","w","n"," ","S","h","o","p">>>>,
    <<<<"l","a","w","y","e","r">>, <<"L","a","w"," ","O","f","f","i","c","e">>>>,
    <<<<"a","c","c","o","u","n","t","a","n","t">>, <<"A","c","c","o","u","n","t","a","n","t">>>>,
    <<<<"i","n","s","u","r","a","n","c","e">>, <<"I","n","s","u","r","a","n","c","e">>>>,
    <<<<"e","s","t","a","t","e","_","a","g","e","n","t">>, <<"R","e","a","l"," ","E","s","t","a","t","e">>>>,
    <<<<"e","m","p","l","o","y","m","e","n","t","_","a","g","e","n","c","y">>, <<"E","m","p","l","o","y","m","e","n","t"," ","A","g","e","n","c","y">>>>,
    <<<<"t","r","a","v","e","l","_","a","g","e","n","t">>, <<"T","r","a","v","e","l"," ","A","g","e","n","c","y">>>>,
    <<<<"n","o","t","a","r","y">>, <<"N","o","t","a","r","y">>>>,
    <<<<"t","a","x","_","a","d","v","i","s","o","r">>, <<"T","a","x"," ","A","d","v","i","s","o","r">>>>,
    <<<<"f","i","n","a","n","c","i","a","l">>, <<"F","i","n","a","n","c","i","a","l"," ","S","e","r","v","i","c","e","s">>>>,
    <<<<"p","l","u","m","b","e","r">>, <<"P","l","u","m","b","e","r">>>>,
    <<<<"e","l","e","c","t","r","i","c","i","a","n">>, <<"E","l","e","c","t","r","i","c","i","a","n">>>>,
    <<<<"h","v","a","c">>, <<"H","V","A","C">>>>,
    <<<<"c","a","r","p","e","n","t","e","r">>, <<"C","a","r","p","e","n","t","e","r">>>>,
    <<<<"p","a","i","n","t","e","r">>, <<"P","a","i","n","t","e","r">>>>,
    <<<<"r","o","o","f","e","r">>, <<"R","o","o","f","e","r">>>>,
    <<<<"l","o","c","k","s","m","i","t","h">>, <<"L","o","c","k","s","m","i","t","h">>>>,
    <<<<"h","o","t","e","l">>, <<"H","o","t","e","l">>>>,
    <<<<"m","o","t","e","l">>, <<"M","o","t","e","l">>>>,
    <<<<"g","u","e","s","t","_","h","o","u","s","e">>, <<"G","u","e","s","t"," ","H","o","u","s","e">>>>,
    <<<<"h","o","s","t","e","l">>, <<"H","o","s","t","e","l">>>>,
    <<<<"m","u","s","e","u","m">>, <<"M","u","s","e","u","m">>>>,
    <<<<"a","t","t","r","a","c","t","i","o","n">>, <<"A","t","t","r","a","c","t","i","o","n">>>>,
    <<<<"h","o","s","p","i","t","a","l">>, <<"H","o","s","p","i","t","a","l">>>>,
    <<<<"c","l","i","n","i","c">>, <<"C","l","i","n","i","c">>>>,
    <<<<"d","o","c","t","o","r","s">>, <<"D","o","c","t","o","r">>>>,
    <<<<"d","e","n","t","i","s","t">>, <<"D","e","n","t","i","s","t">>>>,
    <<<<"p","h","a","r","m","a","c","y">>, <<"P","h","a","r","m","a","c","y">>>>
>>

\* a tag (or any string value) is truthy when it is present and not empty
Truthy(tags, key) == key \in DOMAIN tags /\ tags[key] # <<>>

\* a value that is no string: null, and a property inherited from Object.prototype
Null == <<"null">>
Inherited(key) == <<"Object.prototype">> \o key

\* names every plain object inherits, of which the model's inputs use these
ObjectPrototypeKeys ==
    { <<"c","o","n","s","t","r","u","c","t","o","r">>, <<"v","a","l","u","e","O","f">> }

\* map[key] on an object literal: the last property written under the key, else
\* the inherited property, else undefined (HasProperty false)
OwnIndexes(map, key) == {k \in DOMAIN map : map[k][1] = key}
HasProperty(map, key) == OwnIndexes(map, key) # {} \/ key \in ObjectPrototypeKeys
Property(map, key) ==
    IF OwnIndexes(map, key) # {}
    THEN map[CHOOSE k \in OwnIndexes(map, key) : \A m \in OwnIndexes(map, key) : m <= k][2]
    ELSE Inherited(key)

tagTypes == <<"shop", "amenity", "office", "craft", "tourism", "healthcare">>
Yes == <<"y","e","s">>
Business == <<"B","u","s","i","n","e","s","s">>

\* value.charAt(0).toUpperCase() + value.slice(1).replace(/_/g, ' ')
Capitalize(value) ==
    <<UpperChar(value[1])>> \o ReplaceEach(slice(value, 1), {"_"}, " ")

\* getCategory of the orchestrator script, from the k-th tag type on
RECURSIVE getCategoryFrom(_, _)
getCategoryFrom(tags, k) ==
    IF k > Len(tagTypes) THEN Business
    ELSE IF Truthy(tags, tagTypes[k])
         THEN LET value == tags[tagTypes[k]] IN
              IF value = Yes THEN getCategoryFrom(tags, k + 1)
              ELSE IF HasProperty(categoryMap, value) THEN Property(categoryMap, value)
              ELSE Capitalize(value)
         ELSE getCategoryFrom(tags, k + 1)

getCategory(tags) == getCategoryFrom(tags, 1)

\* getCategory of the single-town script: the table is consulted before "yes"
RECURSIVE getCategory2From(_, _)
getCategory2From(tags, k) ==
    IF k > Len(tagTypes) THEN Business
    ELSE IF Truthy(tags, tagTypes[k])
         THEN LET value == tags[tagTypes[k]] IN
              IF HasProperty(categoryMap2, value) THEN Property(categoryMap2, value)
              ELSE IF value = Yes THEN getCategory2From(tags, k + 1)
              ELSE Capitalize(value)
         ELSE getCategory2From(tags, k + 1)

getCategory2(tags) == getCategory2From(tags, 1)

-----------------------------------------------------------------------------
(* Phone formatter *)

\* the class \d+
DigitOrPlus == Range(DigitChars) \cup {"+"}

\* `(${a}) ${b}-${c}`
PhoneTemplate(a, b, c) == <<"(">> \o a \o <<")", " ">> \o b \o <<"-">> \o c

\* the body of formatPhone after its falsy-input test
formatPhoneBody(phone) ==
    LET cleaned == KeepOnly(phone, DigitOrPlus) IN
    IF Len(cleaned) = 10
    THEN PhoneTemplate(slice2(cleaned, 0, 3), slice2(cleaned, 3, 6), slice(cleaned, 6))
    ELSE IF Len(cleaned) = 11 /\ startsWith(cleaned, <<"1">>)
    THEN PhoneTemplate(slice2(cleaned, 1, 4), slice2(cleaned, 4, 7), slice(cleaned, 7))
    ELSE phone

\* formatPhone of the orchestrator script; an absent phone is passed as <<>>
formatPhone(phone) == IF phone = <<>> THEN <<>> ELSE formatPhoneBody(phone)

\* formatPhone of the single-town script
formatPhone2(phone) == IF phone = <<>> THEN Null ELSE formatPhoneBody(phone)

-----------------------------------------------------------------------------
(* String.prototype.localeCompare *)

\* the characters of the model's alphabet in the collation's primary order:
\* white space, punctuation, symbols, digits, letters (a letter and its capital
\* share a primary weight)
CollationOrder == <<"\t", " ", "_", "-", ",", ".", "'", "(", ")", "+">>
                    \o DigitChars \o LowerLetters

Primary(c) == IndexOf(LowerChar(c), CollationOrder)

\* -1, 0 or 1: the first primary difference decides, a proper prefix sorts first,
\* and between strings equal up to case the first lower-case letter sorts first
localeCompare(a, b) ==
    LET n == IF Len(a) < Len(b) THEN Len(a) ELSE Len(b)
        diffP == {k \in 1..n : Primary(a[k]) # Primary(b[k])}
        diffT == {k \in 1..n : a[k] # b[k]}
        first(S) == CHOOSE k \in S : \A m \in S : k <= m
    IN  IF diffP # {}
        THEN IF Primary(a[first(diffP)]) < Primary(b[first(diffP)]) THEN -1 ELSE 1
        ELSE IF Len(a) # Len(b) THEN (IF Len(a) < Len(b) THEN -1 ELSE 1)
        ELSE IF diffT # {} THEN (IF IsLower(a[first(diffT)]) THEN -1 ELSE 1)
        ELSE 0

-----------------------------------------------------------------------------
(* Town-list discovery: the callbacks of fetchNJTownsList *)

\* el.tags && el.tags.name
HasName(el) == "tags" \in DOMAIN el /\ Truthy(el.tags, "name")

townOf(el) ==
    [name |-> el.tags.name,
     displayName |-> cleanName(el.tags.name),
     slug |-> slugify(cleanName(el.tags.name)) \o StateSuffix,
     osmId |-> el.id]

\* (a variant that compares display names, used to test the properties below)
SameSlugByDisplayName(t, town) == t.displayName = town.displayName
SameSlug(t, town) == t.slug = town.slug
byDisplayName(a, b) == localeCompare(a.displayName, b.displayName)

\* data.elements is missing or empty: fetchNJTownsList throws 'No towns found in NJ'
NoElements(data) == IF "elements" \in DOMAIN data THEN Len(data.elements) = 0 ELSE TRUE

-----------------------------------------------------------------------------
(* Per-town extraction: the callbacks of fetchBusinessesForTown *)

Tag(tags, key) == IF key \in DOMAIN tags THEN tags[key] ELSE <<>>
\* a || b || ""
OrElse(a, b) == IF a # <<>> THEN a ELSE b

\* the postal filter, with the prefixes the script allows
PostcodeAllowed(el, prefixes) ==
    IF Truthy(el.tags, "addr:postcode")
    THEN \E p \in prefixes : startsWith(el.tags["addr:postcode"], p)
    ELSE TRUE

NJPrefixes == { <<"0","8">>, <<"0","7">> }
TrentonPrefixes == { <<"0","8">> }

\* the address of the map callback, and formatAddress with its fixed 'Trenton'
formatAddress(tags, displayName) ==
    LET first == IF Truthy(tags, "addr:housenumber") /\ Truthy(tags, "addr:street")
                 THEN << tags["addr:housenumber"] \o <<" ">> \o tags["addr:street"] >>
                 ELSE IF Truthy(tags, "addr:street") THEN << tags["addr:street"] >>
                 ELSE <<>>
        region == IF Truthy(tags, "addr:postcode")
                  THEN <<"N","J"," ">> \o tags["addr:postcode"]
                  ELSE <<"N","J">>
    IN  join(first \o <<displayName, region>>, <<",", " ">>)

businessOf(el, town) ==
    [name |-> el.tags.name,
     category |-> getCategory(el.tags),
     address |-> formatAddress(el.tags, town.displayName),
     phone |-> formatPhone(Tag(el.tags, "phone")),
     email |-> OrElse(Tag(el.tags, "email"), Tag(el.tags, "contact:email")),
     website |-> OrElse(Tag(el.tags, "website"), Tag(el.tags, "contact:website")),
     hours |-> Tag(el.tags, "opening_hours")]

\* (a variant that compares names only, used to test the properties below)
SameBusinessByName(b, business) == b.name = business.name
SameBusiness(b, business) == b.name = business.name /\ b.address = business.address

byCategoryThenName(a, b) ==
    IF localeCompare(a.category, b.category) # 0
    THEN localeCompare(a.category, b.category)
    ELSE localeCompare(a.name, b.name)

NJKept(el) == PostcodeAllowed(el, NJPrefixes)

-----------------------------------------------------------------------------
(* Array.prototype.sort, the duplicate filter, and the two pipelines *)

\* the comparator and the duplicate test of each pipeline, by the field they use
compare(by, a, b) == IF by = "displayName" THEN byDisplayName(a, b) ELSE byCategoryThenName(a, b)
same(by, a, b) == IF by = "slug" THEN SameSlug(a, b) ELSE SameBusiness(a, b)

\* Array.prototype.sort(compare): stable, by insertion after the elements not greater
SortBy(s, by) ==
    LET insert(t, x) ==
            LET p == Cardinality({m \in DOMAIN t : compare(by, t[m], x) <= 0})
            IN  SubSeq(t, 1, p) \o <<x>> \o SubSeq(t, p + 1, Len(t))
        sorted[k \in 0..Len(s)] == IF k = 0 THEN <<>> ELSE insert(sorted[k - 1], s[k])
    IN  sorted[Len(s)]

\* self.findIndex(y => same(y, x)), 1-based; x itself is in s
FindIndex(s, by, x) ==
    CHOOSE k \in DOMAIN s : same(by, s[k], x) /\ \A m \in 1..(k - 1) : ~same(by, s[m], x)

\* s.filter((x, index, self) => index === self.findIndex(y => same(y, x)))
FirstOccurrences(s, by) ==
    LET keep[k \in 0..Len(s)] ==
            IF k = 0 THEN <<>>
            ELSE keep[k - 1] \o (IF k = FindIndex(s, by, s[k]) THEN <<s[k]>> ELSE <<>>)
    IN  keep[Len(s)]

townsOf(elements) ==
    LET named == SelectSeq(elements, HasName)
        mapped == [k \in DOMAIN named |-> townOf(named[k])]
    IN  SortBy(FirstOccurrences(mapped, "slug"), "displayName")

businessesOf(town, elements) ==
    LET named == SelectSeq(SelectSeq(elements, HasName), NJKept)
        mapped == [k \in DOMAIN named |-> businessOf(named[k], town)]
    IN  SortBy(FirstOccurrences(mapped, "pair"), "category")

fetchBusinessesForTown(town, data) ==
    IF "elements" \notin DOMAIN data THEN <<>> ELSE businessesOf(town, data.elements)

\* the single-town script: main's pipeline from data.elements to cleanedBusinesses
Trenton == <<"T","r","e","n","t","o","n">>

\* formatPhone(tags.phone) || null, website || null, then the keys that are null dropped
business2Of(el) ==
    LET phone == formatPhone2(Tag(el.tags, "phone"))
        website == OrElse(Tag(el.tags, "website"), Tag(el.tags, "contact:website"))
        base == [name |-> el.tags.name,
                 category |-> getCategory2(el.tags),
                 address |-> formatAddress(el.tags, Trenton)]
    IN  base @@ (IF phone # Null /\ phone # <<>> THEN [phone |-> phone] ELSE <<>>)
             @@ (IF website # <<>> THEN [website |-> website] ELSE <<>>)

TrentonKept(el) == PostcodeAllowed(el, TrentonPrefixes)

trentonBusinesses(elements) ==
    LET named == SelectSeq(SelectSeq(elements, HasName), TrentonKept)
        mapped == [k \in DOMAIN named |-> business2Of(named[k])]
    IN  SortBy(FirstOccurrences(mapped, "pair"), "category")

-----------------------------------------------------------------------------
(* The state before a script starts, and the inputs of the functions *)

\* the most characters of a town-name stem, tags of one entity, digits of a phone
\* string, entities of one response, towns of a discovered list, and invocations
MaxNameLen == 3
MaxTags == 3
MaxDigits == 12
MaxEls == 3
MaxTowns == 2
MaxRuns == 2
\* the most towns of a list found on disk when the script starts
MaxListed == 41

BATCH_SIZE == 20
RATE_LIMIT_MS == 2000
BATCH_PAUSE_MS == 5000

Seqs(S, n) == UNION {[1..m -> S] : m \in 0..n}

NoFile == [exists |-> FALSE]
File(content) == [exists |-> TRUE, partial |-> FALSE, content |-> content]
\* what a writeFileSync that failed after creating the file leaves behind
PartialFile == [exists |-> TRUE, partial |-> TRUE]

OrchInit ==
    /\ pc = "start"
    /\ run = 1
    /\ townsListFile = NoFile
    /\ dataFiles = <<>>
    /\ contentFiles = <<>>
    /\ towns = <<>>
    /\ i = 0
    /\ j = 0
    /\ totalProcessed = 0
    /\ totalSkipped = 0
    /\ totalBusinesses = 0
    /\ totalErrors = 0
    /\ summary = <<>>
    /\ discovered = <<>>
    /\ fetched = <<>>
    /\ written = <<>>
    /\ handled = <<>>
    /\ prevSummary = <<>>
    /\ startFiles = {}
    /\ timeline = <<>>

Idle == fn = "none" /\ arg = <<>> /\ ret = <<>>

\* one application of a function to the input drawn by Init
Apply(name, result) ==
    /\ fn = "none"
    /\ fn' = name
    /\ ret' = result
    /\ UNCHANGED <<arg, orchVars>>

(* -- identifier derivation -- *)

NameAlphabet == {"a", "B", "1", " ", "-", "."}
NameEndings == { <<>>, CitySuffix, TownshipSuffix,
                 <<" ","b","o","r","o","u","g","h">>, <<" ","-">>, <<" "," ">> \o CitySuffix }
TownNames == {stem \o ending : stem \in Seqs(NameAlphabet, MaxNameLen), ending \in NameEndings}
              \ { <<>> }

InitSlug == OrchInit /\ fn = "none" /\ ret = <<>> /\ arg \in TownNames

\* the slug the map callback of fetchNJTownsList gives an entity named `arg`
DeriveSlug == Apply("slug", townOf([id |-> 1, tags |-> [name |-> arg]]).slug)

NextSlug == DeriveSlug
SpecSlug == InitSlug /\ [][NextSlug]_vars

(* -- category classifier -- *)

CategoryValues ==
    { <<>>, Yes, <<"b","a","r">>, <<"d","e","l","i">>, <<"f","o","o","_","b","a","r">>,
      <<"_","x">>, <<"c","o","n","s","t","r","u","c","t","o","r">> }

TagMappings ==
    UNION { [keys -> CategoryValues] :
              keys \in {K \in SUBSET Range(tagTypes) : Cardinality(K) <= MaxTags} }

InitCategory == OrchInit /\ fn = "none" /\ ret = <<>> /\ arg \in TagMappings

GetCategory == Apply("getCategory", getCategory(arg))
GetCategory2 == Apply("getCategory2", getCategory2(arg))

NextCategory == GetCategory \/ GetCategory2
SpecCategory == InitCategory /\ [][NextCategory]_vars

(* -- phone formatter -- *)

PhonePattern == <<"6","0","9","5","5","5","1","2","3","4","7","8">>
PhoneDigits(n) == [k \in 1..n |-> PhonePattern[((k - 1) % Len(PhonePattern)) + 1]]
PhoneMarks == {"+", "-", " ", "("}
Insert(s, p, c) == SubSeq(s, 1, p) \o <<c>> \o SubSeq(s, p + 1, Len(s))
Marked(S) == UNION { {Insert(s, p, c) : p \in 0..Len(s), c \in PhoneMarks} : s \in S }

\* digit strings of every length up to MaxDigits, with and without a leading 1,
\* and with up to two other characters anywhere in them
PhoneBases == {lead \o PhoneDigits(n) : lead \in {<<>>, <<"1">>}, n \in 0..(MaxDigits - 1)}
PhoneInputs == (PhoneBases \cup Marked(PhoneBases) \cup Marked(Marked(PhoneBases))) \ { <<>> }

InitPhone == OrchInit /\ fn = "none" /\ ret = <<>> /\ arg \in PhoneInputs

FormatPhone == Apply("formatPhone", formatPhone(arg))
FormatPhone2 == Apply("formatPhone2", formatPhone2(arg))

NextPhone == FormatPhone \/ FormatPhone2
SpecPhone == InitPhone /\ [][NextPhone]_vars

(* -- town-list discovery on one response -- *)

\* names that collide in their slug, differ only in it, or yield no town
ListNames ==
    { <<"a">>, <<"A"," ","C","i","t","y">>, <<"a",".">>, <<"b">>, <<"B"," ","a">>, <<"b","-","a">> }

\* the tags of the entities of a discovery response: named, nameless, or none at all
ListEntities ==
    {[tags |-> [name |-> n]] : n \in ListNames}
        \cup { [tags |-> [name |-> <<>>]], [tags |-> <<>>], <<>> }

\* el.id is the position of the entity in the response
Numbered(entities) == [k \in DOMAIN entities |-> entities[k] @@ [id |-> k]]

ListResponses == {Numbered(es) : es \in Seqs(ListEntities, MaxEls)}

InitTowns == OrchInit /\ fn = "none" /\ ret = <<>> /\ arg \in ListResponses

\* fetchNJTownsList on the response [elements |-> arg]
FetchNJTownsList ==
    /\ ~NoElements([elements |-> arg])
    /\ Apply("fetchNJTownsList", townsOf(arg))

FetchNJTownsListThrows ==
    /\ NoElements([elements |-> arg])
    /\ Apply("threw", <<>>)

NextTowns == FetchNJTownsList \/ FetchNJTownsListThrows
SpecTowns == InitTowns /\ [][NextTowns]_vars

(* -- per-town extraction on one response -- *)

J == <<"J">>
K == <<"K">>
M == <<"M">>
Deli == <<"d","e","l","i">>
Bar == <<"b","a","r">>
GoodPhone == <<"6","0","9","5","5","5","1","2","3","4">>

\* entities that share a name and an address under different tags, share only one
\* of the two, fail the postal filter of one or of both scripts, or have no name
BusinessEntities ==
    { [tags |-> [name |-> J, shop |-> Deli, phone |-> GoodPhone]
                  @@ ("addr:housenumber" :> <<"1">>) @@ ("addr:street" :> M)],
      [tags |-> [name |-> J, shop |-> Bar] @@ ("addr:street" :> <<"1"," ","M">>)],
      [tags |-> [name |-> J, amenity |-> Bar] @@ ("addr:street" :> M)],
      [tags |-> [name |-> K, shop |-> Yes, website |-> <<"w">>]
                  @@ ("addr:housenumber" :> <<"1">>) @@ ("addr:street" :> M)],
      [tags |-> [name |-> J, shop |-> Deli]
                  @@ ("addr:street" :> M) @@ ("addr:postcode" :> <<"0","7","1">>)],
      [tags |-> [name |-> J, craft |-> Deli]
                  @@ ("addr:street" :> M) @@ ("addr:postcode" :> <<"1","9","0">>)],
      [tags |-> [name |-> J, office |-> Yes]
                  @@ ("addr:housenumber" :> <<"1">>)],
      [tags |-> [name |-> <<>>, shop |-> Deli]],
      [tags |-> [shop |-> Deli]],
      <<>> }

BusinessResponses == {Numbered(es) : es \in Seqs(BusinessEntities, MaxEls)}

InitBusinesses == OrchInit /\ fn = "none" /\ ret = <<>> /\ arg \in BusinessResponses

TheTown == townOf([id |-> 1, tags |-> [name |-> <<"T"," ","C","i","t","y">>]])

FetchBusinessesForTown ==
    Apply("fetchBusinessesForTown", fetchBusinessesForTown(TheTown, [elements |-> arg]))

\* the single-town script on the same response (it returns early on an empty one)
TrentonMain ==
    /\ ~NoElements([elements |-> arg])
    /\ Apply("trenton", trentonBusinesses(arg))

NextBusinesses == FetchBusinessesForTown \/ TrentonMain
SpecBusinesses == InitBusinesses /\ [][NextBusinesses]_vars

-----------------------------------------------------------------------------
(* The orchestrator: main, processTown, generateDataFile, generateContentFile *)

\* how queryOverpass rejects: the request errors, times out, or the body is no JSON
Rejections == {"Request failed", "Request timeout", "Failed to parse response"}

\* the entities a discovery response is drawn from, each with its OSM id: three
\* slugs, two names for one of them, and an entity without a name
DiscoveryEntities ==
    { [id |-> 1, tags |-> [name |-> <<"a">>]],
      [id |-> 2, tags |-> [name |-> <<"A"," ","C","i","t","y">>]],
      [id |-> 3, tags |-> [name |-> <<"b">>]],
      [id |-> 4, tags |-> [name |-> <<"c">>]],
      [id |-> 5, tags |-> <<>>] }

Distinct(es) == \A m, n \in DOMAIN es : m # n => es[m] # es[n]

\* a parsed body without `elements`, or with up to MaxTowns different entities
DiscoveryData ==
    { <<>> } \cup {[elements |-> es] : es \in {e \in Seqs(DiscoveryEntities, MaxTowns) : Distinct(e)}}

\* the parsed bodies of the per-town query: no `elements`, or two businesses
TownData ==
    { <<>>,
      [elements |-> <<[id |-> 1, tags |-> [name |-> K, shop |-> Yes]],
                      [id |-> 2, tags |-> [name |-> J, shop |-> Deli]]>>] }

\* what a writeFileSync that throws may leave at the path: nothing, or a partial file
FailedWrites == {"nothing", "partial"}

\* fs.writeFileSync(path, content) on a directory modelled as a function of slugs
Write(dir, slug, file) ==
    [s \in DOMAIN dir \cup {slug} |-> IF s = slug THEN file ELSE dir[s]]
WriteFailed(dir, slug, left) ==
    IF left = "partial" THEN Write(dir, slug, PartialFile) ELSE dir

\* (a variant that looks for the content stub, used to test the properties below)
existsSyncContent(slug) == slug \in DOMAIN contentFiles
\* fs.existsSync(dataFilePath)
existsSync(slug) == slug \in DOMAIN dataFiles

townDataOf(town, businesses) ==
    [name |-> town.displayName, slug |-> town.slug, businesses |-> businesses]
frontMatterOf(town) == [title |-> town.displayName, slug |-> town.slug]

\* the town the for-of loop is at, and the length of towns.slice(i, i + BATCH_SIZE)
InLoop == pc = "loop" /\ i < Len(towns)
CurrentTown == towns[i + j + 1]
BatchLength == IF Len(towns) - i < BATCH_SIZE THEN Len(towns) - i ELSE BATCH_SIZE

Result(town, skipped, error, businesses) ==
    [slug |-> town.slug, skipped |-> skipped, error |-> error, businesses |-> businesses]

\* the entries of the timeline: processTown(towns[k]) is called, sleep(ms) is awaited
Call(k) == [call |-> "processTown", town |-> k]
Sleep(ms) == [call |-> "sleep", ms |-> ms]

counters == <<totalProcessed, totalSkipped, totalBusinesses, totalErrors>>
files == <<townsListFile, dataFiles, contentFiles>>
history == <<discovered, fetched, written, handled, prevSummary, startFiles>>
pure == <<fn, arg, ret>>

\* main finds the towns list on disk and parses it
LoadTownsList ==
    /\ pc = "start"
    /\ townsListFile.exists /\ ~townsListFile.partial
    /\ towns' = townsListFile.content
    /\ pc' = "loop"
    /\ UNCHANGED <<run, i, j, counters, summary, files, history, timeline, pure>>

\* JSON.parse throws on a list file cut short: main rejects, exit status 1
LoadTownsListThrows ==
    /\ pc = "start"
    /\ townsListFile.exists /\ townsListFile.partial
    /\ pc' = "fatal"
    /\ UNCHANGED <<run, towns, i, j, counters, summary, files, history, timeline, pure>>

\* no list on disk: fetchNJTownsList issues the discovery query
StartDiscovery ==
    /\ pc = "start"
    /\ ~townsListFile.exists
    /\ pc' = "discover"
    /\ UNCHANGED <<run, towns, i, j, counters, summary, files, history, timeline, pure>>

\* the discovery query rejects: main rejects, exit status 1
DiscoveryRejects ==
    /\ pc = "discover"
    /\ \E why \in Rejections : discovered' = <<[rejected |-> why]>>
    /\ pc' = "fatal"
    /\ UNCHANGED <<run, towns, i, j, counters, summary, files,
                   fetched, written, handled, prevSummary, startFiles, timeline, pure>>

\* the body has no elements: fetchNJTownsList throws 'No towns found in NJ'
DiscoveryThrows ==
    /\ pc = "discover"
    /\ \E data \in DiscoveryData :
           /\ NoElements(data)
           /\ discovered' = <<[data |-> data]>>
    /\ pc' = "fatal"
    /\ UNCHANGED <<run, towns, i, j, counters, summary, files,
                   fetched, written, handled, prevSummary, startFiles, timeline, pure>>

\* the body has elements: the list is computed and saved, and the loop starts
DiscoverySaved ==
    /\ pc = "discover"
    /\ \E data \in DiscoveryData :
           /\ ~NoElements(data)
           /\ discovered' = <<[data |-> data]>>
           /\ towns' = townsOf(data.elements)
           /\ townsListFile' = File(townsOf(data.elements))
    /\ pc' = "loop"
    /\ UNCHANGED <<run, i, j, counters, summary, dataFiles, contentFiles,
                   fetched, written, handled, prevSummary, startFiles, timeline, pure>>

\* the list is computed but writing it throws: main rejects, exit status 1
TownsListWriteThrows ==
    /\ pc = "discover"
    /\ \E data \in DiscoveryData, left \in FailedWrites :
           /\ ~NoElements(data)
           /\ discovered' = <<[data |-> data]>>
           /\ townsListFile' = IF left = "partial" THEN PartialFile ELSE NoFile
    /\ pc' = "fatal"
    /\ UNCHANGED <<run, towns, i, j, counters, summary, dataFiles, contentFiles,
                   fetched, written, handled, prevSummary, startFiles, timeline, pure>>

\* (a variant that counts the skipped town as processed, used to test the properties)
SkipTownCountedProcessed ==
    /\ InLoop
    /\ existsSync(CurrentTown.slug)
    /\ totalProcessed' = totalProcessed + 1
    /\ handled' = Append(handled, Result(CurrentTown, TRUE, FALSE, 0))
    /\ timeline' = Append(timeline, Call(i + j + 1))
    /\ pc' = "sleep"
    /\ UNCHANGED <<run, towns, i, j, totalSkipped, totalBusinesses, totalErrors, summary,
                   files, discovered, fetched, written, prevSummary, startFiles, pure>>

\* processTown finds the data file: the town is skipped and counted as skipped
SkipTown ==
    /\ InLoop
    /\ existsSync(CurrentTown.slug)
    /\ totalSkipped' = totalSkipped + 1
    /\ handled' = Append(handled, Result(CurrentTown, TRUE, FALSE, 0))
    /\ timeline' = Append(timeline, Call(i + j + 1))
    /\ pc' = "sleep"
    /\ UNCHANGED <<run, towns, i, j, totalProcessed, totalBusinesses, totalErrors, summary,
                   files, discovered, fetched, written, prevSummary, startFiles, pure>>

\* no data file: fetchBusinessesForTown issues the per-town query
StartFetch ==
    /\ InLoop
    /\ ~existsSync(CurrentTown.slug)
    /\ fetched' = Append(fetched, CurrentTown.slug)
    /\ timeline' = Append(timeline, Call(i + j + 1))
    /\ pc' = "fetching"
    /\ UNCHANGED <<run, towns, i, j, counters, summary, files,
                   discovered, written, handled, prevSummary, startFiles, pure>>

\* (a variant without the try/catch of processTown, used to test the properties)
FetchRejectsUncaught ==
    /\ pc = "fetching"
    /\ pc' = "fatal"
    /\ UNCHANGED <<run, towns, i, j, counters, summary, files, history, timeline, pure>>

\* the per-town query rejects (request error, timeout, or a body that is no JSON):
\* caught in processTown, which returns {skipped: false, businesses: 0, error: true}
FetchRejects ==
    /\ pc = "fetching"
    /\ handled' = Append(handled, Result(CurrentTown, FALSE, TRUE, 0))
    /\ totalErrors' = totalErrors + 1
    /\ pc' = "sleep"
    /\ UNCHANGED <<run, towns, i, j, totalProcessed, totalSkipped, totalBusinesses, summary,
                   files, discovered, fetched, written, prevSummary, startFiles, timeline, pure>>

\* (a variant that forgets to add the businesses found, used to test the properties)
TownProcessedNotSummed ==
    /\ pc = "fetching"
    /\ \E data \in TownData :
           LET businesses == fetchBusinessesForTown(CurrentTown, data) IN
           /\ dataFiles' = Write(dataFiles, CurrentTown.slug,
                                 File(townDataOf(CurrentTown, businesses)))
           /\ contentFiles' = Write(contentFiles, CurrentTown.slug,
                                    File(frontMatterOf(CurrentTown)))
           /\ handled' = Append(handled, Result(CurrentTown, FALSE, FALSE, Len(businesses)))
    /\ written' = written \o << <<"data", CurrentTown.slug>>, <<"content", CurrentTown.slug>> >>
    /\ totalProcessed' = totalProcessed + 1
    /\ pc' = "sleep"
    /\ UNCHANGED <<run, towns, i, j, totalSkipped, totalBusinesses, totalErrors, summary,
                   townsListFile, discovered, fetched, prevSummary, startFiles, timeline, pure>>

\* the query answers and both files are written: counted as processed
TownProcessed ==
    /\ pc = "fetching"
    /\ \E data \in TownData :
           LET businesses == fetchBusinessesForTown(CurrentTown, data) IN
           /\ dataFiles' = Write(dataFiles, CurrentTown.slug,
                                 File(townDataOf(CurrentTown, businesses)))
           /\ contentFiles' = Write(contentFiles, CurrentTown.slug,
                                    File(frontMatterOf(CurrentTown)))
           /\ totalBusinesses' = totalBusinesses + Len(businesses)
           /\ handled' = Append(handled, Result(CurrentTown, FALSE, FALSE, Len(businesses)))
    /\ written' = written \o << <<"data", CurrentTown.slug>>, <<"content", CurrentTown.slug>> >>
    /\ totalProcessed' = totalProcessed + 1
    /\ pc' = "sleep"
    /\ UNCHANGED <<run, towns, i, j, totalSkipped, totalErrors, summary, townsListFile,
                   discovered, fetched, prevSummary, startFiles, timeline, pure>>

\* the query answers and generateDataFile throws: caught, counted as an error
DataWriteThrows ==
    /\ pc = "fetching"
    /\ \E left \in FailedWrites :
           dataFiles' = WriteFailed(dataFiles, CurrentTown.slug, left)
    /\ written' = Append(written, <<"data", CurrentTown.slug>>)
    /\ handled' = Append(handled, Result(CurrentTown, FALSE, TRUE, 0))
    /\ totalErrors' = totalErrors + 1
    /\ pc' = "sleep"
    /\ UNCHANGED <<run, towns, i, j, totalProcessed, totalSkipped, totalBusinesses, summary,
                   townsListFile, contentFiles, discovered, fetched, prevSummary,
                   startFiles, timeline, pure>>

\* the data file is written and generateContentFile throws: caught, counted as an error
ContentWriteThrows ==
    /\ pc = "fetching"
    /\ \E data \in TownData, left \in FailedWrites :
           /\ dataFiles' = Write(dataFiles, CurrentTown.slug,
                                 File(townDataOf(CurrentTown,
                                                 fetchBusinessesForTown(CurrentTown, data))))
           /\ contentFiles' = WriteFailed(contentFiles, CurrentTown.slug, left)
    /\ written' = written \o << <<"data", CurrentTown.slug>>, <<"content", CurrentTown.slug>> >>
    /\ handled' = Append(handled, Result(CurrentTown, FALSE, TRUE, 0))
    /\ totalErrors' = totalErrors + 1
    /\ pc' = "sleep"
    /\ UNCHANGED <<run, towns, i, j, totalProcessed, totalSkipped, totalBusinesses, summary,
                   townsListFile, discovered, fetched, prevSummary, startFiles, timeline, pure>>

\* (a variant that pauses after every batch, the last one too, used to test the properties)
RateLimitPauseAfterLast ==
    /\ pc = "sleep"
    /\ IF j + 1 < BatchLength
       THEN /\ j' = j + 1
            /\ i' = i
            /\ timeline' = Append(timeline, Sleep(RATE_LIMIT_MS))
       ELSE /\ j' = 0
            /\ i' = i + BATCH_SIZE
            /\ timeline' = timeline \o <<Sleep(RATE_LIMIT_MS), Sleep(BATCH_PAUSE_MS)>>
    /\ pc' = "loop"
    /\ UNCHANGED <<run, towns, counters, summary, files, history, pure>>

\* the sleep after a town, and after the last town of a batch the step to the next
\* batch (with its longer sleep when towns remain)
RateLimit ==
    /\ pc = "sleep"
    /\ IF j + 1 < BatchLength
       THEN /\ j' = j + 1
            /\ i' = i
            /\ timeline' = Append(timeline, Sleep(RATE_LIMIT_MS))
       ELSE /\ j' = 0
            /\ i' = i + BATCH_SIZE
            /\ timeline' = IF i + BATCH_SIZE < Len(towns)
                           THEN timeline \o <<Sleep(RATE_LIMIT_MS), Sleep(BATCH_PAUSE_MS)>>
                           ELSE Append(timeline, Sleep(RATE_LIMIT_MS))
    /\ pc' = "loop"
    /\ UNCHANGED <<run, towns, counters, summary, files, history, pure>>

\* the loop is over: the summary block is printed and main returns, exit status 0
PrintSummary ==
    /\ pc = "loop"
    /\ i >= Len(towns)
    /\ summary' = <<[towns |-> Len(towns), processed |-> totalProcessed,
                     skipped |-> totalSkipped, errors |-> totalErrors,
                     businesses |-> totalBusinesses]>>
    /\ pc' = "done"
    /\ UNCHANGED <<run, towns, i, j, counters, files, history, timeline, pure>>

\* the script is invoked again on the storage the last run left
Rerun ==
    /\ pc \in {"done", "fatal", "killed"}
    /\ run < MaxRuns
    /\ run' = run + 1
    /\ pc' = "start"
    /\ towns' = <<>>
    /\ i' = 0
    /\ j' = 0
    /\ totalProcessed' = 0
    /\ totalSkipped' = 0
    /\ totalBusinesses' = 0
    /\ totalErrors' = 0
    /\ summary' = <<>>
    /\ discovered' = <<>>
    /\ fetched' = <<>>
    /\ written' = <<>>
    /\ handled' = <<>>
    /\ prevSummary' = summary
    /\ startFiles' = DOMAIN dataFiles
    /\ timeline' = <<>>
    /\ UNCHANGED <<files, pure>>

Init == OrchInit /\ Idle

\* the steps of one invocation
RunStep ==
    \/ LoadTownsList
    \/ LoadTownsListThrows
    \/ StartDiscovery
    \/ DiscoveryRejects
    \/ DiscoveryThrows
    \/ DiscoverySaved
    \/ TownsListWriteThrows
    \/ SkipTown
    \/ StartFetch
    \/ FetchRejects
    \/ TownProcessed
    \/ DataWriteThrows
    \/ ContentWriteThrows
    \/ RateLimit
    \/ PrintSummary

Next == RunStep \/ Rerun

Spec == Init /\ [][Next]_vars

\* every await of an invocation settles: the request answers, errors or times out,
\* and the timers of sleep fire
LiveSpec == Spec /\ WF_vars(RunStep)

-----------------------------------------------------------------------------
(* Invocations that may be interrupted *)

\* the script installs no signal handler: the process is killed while the discovery
\* query or the writing of the list is under way, while a town's query is under way,
\* while or after its data file is written, while its stub is written, or in a sleep
Interrupted ==
    /\ \/ /\ pc = "discover"
          /\ townsListFile' \in {townsListFile, PartialFile}
          /\ UNCHANGED <<dataFiles, contentFiles>>
       \/ /\ pc = "fetching"
          /\ \E left \in FailedWrites :
                 dataFiles' = WriteFailed(dataFiles, CurrentTown.slug, left)
          /\ UNCHANGED <<townsListFile, contentFiles>>
       \/ /\ pc = "fetching"
          /\ \E data \in TownData, left \in FailedWrites :
                 /\ dataFiles' = Write(dataFiles, CurrentTown.slug,
                                       File(townDataOf(CurrentTown,
                                                       fetchBusinessesForTown(CurrentTown, data))))
                 /\ contentFiles' = WriteFailed(contentFiles, CurrentTown.slug, left)
          /\ UNCHANGED townsListFile
       \/ /\ pc = "sleep"
          /\ UNCHANGED files
    /\ pc' = "killed"
    /\ UNCHANGED <<run, towns, i, j, counters, summary, history, timeline, pure>>

CrashNext == Next \/ Interrupted

CrashSpec == Init /\ [][CrashNext]_vars

-----------------------------------------------------------------------------
(* One invocation of main on the storage that earlier invocations left *)

\* the k-th administrative boundary of a long discovery response: "aa", "ab", ...
ListedEntity(k) ==
    [id |-> k, tags |-> [name |-> <<LowerLetters[((k - 1) \div 26) + 1],
                                    LowerLetters[((k - 1) % 26) + 1]>>]]

\* the list fetchNJTownsList computes from the first n of them, as saved by main
ListedTowns(n) == townsOf([k \in 1..n |-> ListedEntity(k)])

\* the towns of the list that may still lack their files when the script starts: the
\* last town of the first batch and the first town of the second
Unfinished(n) == SUBSET ({BATCH_SIZE, BATCH_SIZE + 1} \cap 1..n)

\* the per-town files on disk: those of every listed town but the missing ones
StoredSlugs(list, missing) == {list[k].slug : k \in DOMAIN list \ missing}
TownOfSlug(list, s) == CHOOSE t \in Range(list) : t.slug = s
StoredData(list, missing) ==
    [s \in StoredSlugs(list, missing) |-> File(townDataOf(TownOfSlug(list, s), <<>>))]
StoredContent(list, missing) ==
    [s \in StoredSlugs(list, missing) |-> File(frontMatterOf(TownOfSlug(list, s)))]

\* empty storage, a towns list cut short, or a list with the files of its towns
StorageInit ==
    \/ /\ townsListFile \in {NoFile, PartialFile}
       /\ dataFiles = <<>>
       /\ contentFiles = <<>>
    \/ \E n \in 0..MaxListed :
           LET list == ListedTowns(n) IN
           \E missing \in Unfinished(n) :
               /\ townsListFile = File(list)
               /\ dataFiles = StoredData(list, missing)
               /\ contentFiles = StoredContent(list, missing)

PacingInit ==
    /\ StorageInit
    /\ pc = "start"
    /\ run = 1
    /\ towns = <<>>
    /\ i = 0
    /\ j = 0
    /\ totalProcessed = 0
    /\ totalSkipped = 0
    /\ totalBusinesses = 0
    /\ totalErrors = 0
    /\ summary = <<>>
    /\ discovered = <<>>
    /\ fetched = <<>>
    /\ written = <<>>
    /\ handled = <<>>
    /\ prevSummary = <<>>
    /\ startFiles = DOMAIN dataFiles
    /\ timeline = <<>>
    /\ Idle

SpecPacing == PacingInit /\ [][RunStep]_vars

-----------------------------------------------------------------------------
(* Properties of the pure functions *)

Min(S) == CHOOSE k \in S : \A m \in S : k <= m

\* the label the classifier is specified to give
UsableKeys(tags) == {k \in DOMAIN tagTypes : Truthy(tags, tagTypes[k]) /\ tags[tagTypes[k]] # Yes}
TableKeys == {categoryMap[k][1] : k \in DOMAIN categoryMap}
LabelOf(value) == categoryMap[CHOOSE k \in DOMAIN categoryMap : categoryMap[k][1] = value][2]
Humanized(value) ==
    LET spaced == ReplaceEach(value, {"_"}, " ")
    IN  <<UpperChar(spaced[1])>> \o slice(spaced, 1)
SpecifiedCategory(tags) ==
    IF UsableKeys(tags) = {} THEN Business
    ELSE LET value == tags[tagTypes[Min(UsableKeys(tags))]]
         IN  IF value \in TableKeys THEN LabelOf(value) ELSE Humanized(value)

\* C6: for every tag mapping, getCategory returns the label of the first priority
\* key with a usable value (the mapped label, else the value capitalized with its
\* underscores replaced by spaces), "Business" only when no key is usable, and the
\* two copies of getCategory agree.
C6_CategoryAsSpecified ==
    /\ fn = "getCategory" => ret = SpecifiedCategory(arg)
    /\ fn = "getCategory2" => ret = SpecifiedCategory(arg)
    /\ fn # "none" /\ arg \in TagMappings => getCategory(arg) = getCategory2(arg)

\* the phone string formatPhone is specified to give
OnlyDigits(phone) == SelectSeq(phone, IsDigit)
SpecifiedPhone(phone) ==
    LET digits == OnlyDigits(phone) IN
    IF Len(digits) = 10
    THEN PhoneTemplate(SubSeq(digits, 1, 3), SubSeq(digits, 4, 6), SubSeq(digits, 7, 10))
    ELSE IF Len(digits) = 11 /\ digits[1] = "1"
    THEN PhoneTemplate(SubSeq(digits, 2, 4), SubSeq(digits, 5, 7), SubSeq(digits, 8, 11))
    ELSE phone
Formatted(phone, result) == result # phone

\* C7: for every non-empty phone string, formatPhone returns "(AAA) BBB-CCCC" of the
\* ten national digits exactly when 10 digits remain, or 11 with a leading "1";
\* otherwise the input unmodified; and a formatted output holds no plus sign.
C7_PhoneAsSpecified ==
    fn \in {"formatPhone", "formatPhone2"} =>
        /\ ret = SpecifiedPhone(arg)
        /\ Formatted(arg, ret) => "+" \notin Range(ret)

\* C8: the identifier of every town name consists of lower-case letters, digits and
\* hyphens only, has no run of two or more hyphens, and its part before "-nj" has
\* no leading and no trailing hyphen.
C8_IdentifierWellFormed ==
    fn = "slug" =>
        LET stem == SubSeq(ret, 1, Len(ret) - Len(StateSuffix)) IN
        /\ SubSeq(ret, Len(ret) - Len(StateSuffix) + 1, Len(ret)) = StateSuffix
        /\ \A k \in DOMAIN ret : IsLower(ret[k]) \/ IsDigit(ret[k]) \/ IsHyphen(ret[k])
        /\ \A k \in 1..(Len(ret) - 1) : ~(IsHyphen(ret[k]) /\ IsHyphen(ret[k + 1]))
        /\ stem # <<>> => ~IsHyphen(stem[1]) /\ ~IsHyphen(stem[Len(stem)])

\* the entities of a response that yield a town, in fetch order
NamedEntities(elements) == SelectSeq(elements, HasName)
FirstWithSlug(elements, slug) ==
    LET named == NamedEntities(elements)
    IN  named[Min({m \in DOMAIN named : townSlug(named[m].tags.name) = slug})]

\* C9: the town list returned by fetchNJTownsList holds no two towns with the same
\* slug, holds a town for every slug some named entity derives, and the town kept
\* for a slug is the one of the first such entity in fetch order, whatever the sort
\* by display name does.
C9_SlugUniqueFirstWins ==
    fn = "fetchNJTownsList" =>
        /\ \A a, b \in DOMAIN ret : a # b => ret[a].slug # ret[b].slug
        /\ \A m \in DOMAIN NamedEntities(arg) :
               \E k \in DOMAIN ret : ret[k].slug = townSlug(NamedEntities(arg)[m].tags.name)
        /\ \A k \in DOMAIN ret :
               /\ \E m \in DOMAIN NamedEntities(arg) :
                      townSlug(NamedEntities(arg)[m].tags.name) = ret[k].slug
               /\ ret[k].osmId = FirstWithSlug(arg, ret[k].slug).id
               /\ ret[k].name = FirstWithSlug(arg, ret[k].slug).tags.name

\* a response where a later entity with another name derives the slug of an earlier
\* one, and the sort puts the kept town behind a town fetched after it
C9_Witness ==
    /\ fn = "fetchNJTownsList"
    /\ \E m, n \in DOMAIN NamedEntities(arg) :
           /\ m < n
           /\ NamedEntities(arg)[m].tags.name # NamedEntities(arg)[n].tags.name
           /\ townSlug(NamedEntities(arg)[m].tags.name) = townSlug(NamedEntities(arg)[n].tags.name)
    /\ \E a, b \in DOMAIN ret : a < b /\ ret[a].osmId > ret[b].osmId

\* the entities the name filter and the postal filter of a script keep, in fetch
\* order, and the (name, address) pair of one of them
KeptEntities(elements, prefixes) ==
    SelectSeq(NamedEntities(elements), LAMBDA el : PostcodeAllowed(el, prefixes))
PairOf(el, displayName) == <<el.tags.name, formatAddress(el.tags, displayName)>>
FirstWithPair(kept, displayName, pair) ==
    kept[Min({m \in DOMAIN kept : PairOf(kept[m], displayName) = pair})]

RecordOf(script, el) == IF script = "trenton" THEN business2Of(el) ELSE businessOf(el, TheTown)

DedupAsSpecified(kept, displayName, result, script) ==
    /\ \A a, b \in DOMAIN result :
           a # b => <<result[a].name, result[a].address>> # <<result[b].name, result[b].address>>
    /\ \A k \in DOMAIN result :
           /\ \E m \in DOMAIN kept :
                  PairOf(kept[m], displayName) = <<result[k].name, result[k].address>>
           /\ result[k] = RecordOf(script, FirstWithPair(kept, displayName,
                                                         <<result[k].name, result[k].address>>))
    /\ \A m, n \in DOMAIN kept :
           /\ kept[m].tags.name = kept[n].tags.name
           /\ PairOf(kept[m], displayName) # PairOf(kept[n], displayName)
           => \E a, b \in DOMAIN result :
                  /\ a # b
                  /\ <<result[a].name, result[a].address>> = PairOf(kept[m], displayName)
                  /\ <<result[b].name, result[b].address>> = PairOf(kept[n], displayName)

\* C5: the business list of per-town extraction (either script) holds no two
\* records with the same (name, address); the record kept for a pair is the one
\* derived from the first entity in fetch order with that pair; and two named
\* entities that pass the postal filter with one name and different addresses are
\* both in the list.
C5_DedupFirstWins ==
    /\ fn = "fetchBusinessesForTown" =>
           DedupAsSpecified(KeptEntities(arg, NJPrefixes), TheTown.displayName, ret,
                            "fetchBusinessesForTown")
    /\ fn = "trenton" =>
           DedupAsSpecified(KeptEntities(arg, TrentonPrefixes), Trenton, ret, "trenton")

\* a response with two entities of one (name, address) pair and different
\* categories, and two of one name and different addresses
C5_Witness ==
    /\ fn = "fetchBusinessesForTown"
    /\ LET kept == KeptEntities(arg, NJPrefixes) IN
       /\ \E m, n \in DOMAIN kept :
              /\ m < n
              /\ PairOf(kept[m], TheTown.displayName) = PairOf(kept[n], TheTown.displayName)
              /\ getCategory(kept[m].tags) # getCategory(kept[n].tags)
       /\ \E m, n \in DOMAIN kept :
              /\ kept[m].tags.name = kept[n].tags.name
              /\ PairOf(kept[m], TheTown.displayName) # PairOf(kept[n], TheTown.displayName)
    /\ Len(ret) = 2

-----------------------------------------------------------------------------
(* Properties of the orchestrator *)

Slugs(list) == [k \in DOMAIN list |-> list[k].slug]
TownsLoaded == pc \in {"loop", "fetching", "sleep", "done"}
AllPresentAtStart == \A k \in DOMAIN towns : towns[k].slug \in startFiles
SkippedResult(town) == [slug |-> town.slug, skipped |-> TRUE, error |-> FALSE, businesses |-> 0]

\* C1: a town whose data file exists when the loop reaches it is handled without a
\* fetch and without a write or change to any per-town file, and is counted as
\* skipped; so a run that starts with a data file for every town of the list
\* fetches nothing and writes nothing.
C1_ExistingTownSkipped ==
    /\ [][ InLoop /\ CurrentTown.slug \in DOMAIN dataFiles =>
             /\ fetched' = fetched
             /\ written' = written
             /\ dataFiles' = dataFiles
             /\ contentFiles' = contentFiles
             /\ handled' = Append(handled, SkippedResult(CurrentTown))
             /\ totalSkipped' = totalSkipped + 1
             /\ totalProcessed' = totalProcessed
             /\ totalErrors' = totalErrors ]_vars
    /\ [](TownsLoaded /\ AllPresentAtStart => fetched = <<>> /\ written = <<>>)

\* a finished run over two or more towns that all had a data file when it started
C1_Witness ==
    /\ pc = "done"
    /\ Len(towns) >= 2
    /\ AllPresentAtStart
    /\ totalSkipped = Len(towns)

\* C2: once the list is loaded, whatever fails for whichever towns, the run handles
\* every town of the list once, in list order, never ends at a failed town, and
\* eventually prints the summary and returns normally.
C2_BatchAlwaysCompletes ==
    /\ [](TownsLoaded =>
            /\ Len(handled) <= Len(towns)
            /\ Slugs(handled) = SubSeq(Slugs(towns), 1, Len(handled)))
    /\ [](pc = "done" => Len(handled) = Len(towns) /\ summary # <<>>)
    /\ [][TownsLoaded /\ pc # "done" => pc' \in {"loop", "fetching", "sleep", "done"}]_vars
    /\ \A r \in 1..MaxRuns : (TownsLoaded /\ run = r) ~> (pc = "done" /\ run = r)

\* a finished run in which every town of a list of two or more failed, by a
\* rejected query and by a failed write
C2_Witness ==
    /\ pc = "done"
    /\ Len(towns) >= 2
    /\ totalErrors = Len(towns)
    /\ written # <<>>
    /\ Len(fetched) = Len(towns)
    /\ Len(written) < 2 * Len(towns)

SecondRunOverArtifacts ==
    /\ pc = "done"
    /\ prevSummary # <<>>
    /\ AllPresentAtStart

\* C3 as stated: a run that follows a finished run and finds an artifact for every
\* town writes nothing, and its summary equals the summary of the run before it in
\* everything but the skip counter.
C3_SummaryUnchanged ==
    SecondRunOverArtifacts =>
        /\ written = <<>>
        /\ summary[1].towns = prevSummary[1].towns
        /\ summary[1].processed = prevSummary[1].processed
        /\ summary[1].errors = prevSummary[1].errors
        /\ summary[1].businesses = prevSummary[1].businesses

\* C3 as amended: such a run writes nothing and fetches nothing, and its summary
\* shows the total of the run before it, every town as skipped, and zero processed
\* towns, zero errors and zero businesses.
C3_SecondRunAllSkipped ==
    SecondRunOverArtifacts =>
        /\ written = <<>>
        /\ fetched = <<>>
        /\ summary[1].towns = prevSummary[1].towns
        /\ summary[1].skipped = summary[1].towns
        /\ summary[1].processed = 0
        /\ summary[1].errors = 0
        /\ summary[1].businesses = 0

\* a second run over the artifacts of a first run that processed two or more towns
\* and found businesses
C3_Witness ==
    /\ SecondRunOverArtifacts
    /\ Len(towns) >= 2
    /\ prevSummary[1].processed = Len(towns)
    /\ prevSummary[1].businesses > 0

\* the answer to the discovery query yields no town
DiscoveryFailed ==
    /\ discovered # <<>>
    /\ IF "rejected" \in DOMAIN discovered[1] THEN TRUE
       ELSE IF "elements" \in DOMAIN discovered[1].data
            THEN NamedEntities(discovered[1].data.elements) = <<>>
            ELSE TRUE

\* C4: when the list file is absent and discovery fails (a rejected query, or a body
\* from which no town comes), the run ends with a non-zero exit, no list file is
\* written, and no town is fetched or written.
C4_DiscoveryFailureFatal ==
    DiscoveryFailed =>
        /\ pc = "fatal"
        /\ ~townsListFile.exists
        /\ fetched = <<>>
        /\ written = <<>>

RECURSIVE SumProcessed(_)
SumProcessed(results) ==
    IF results = <<>> THEN 0
    ELSE (IF ~Head(results).skipped /\ ~Head(results).error THEN Head(results).businesses ELSE 0)
         + SumProcessed(Tail(results))

\* C10: each handled town adds one to exactly one of processed, skipped and errors,
\* so their sum is the number of towns handled so far and, at the summary, the number
\* of towns; total businesses is the sum over the towns processed in this run; and
\* no counter of a run decreases.
C10_CounterAccounting ==
    /\ [](totalProcessed + totalSkipped + totalErrors = Len(handled))
    /\ [](pc = "done" => summary[1].processed + summary[1].skipped + summary[1].errors
                           = summary[1].towns)
    /\ [](totalBusinesses = SumProcessed(handled))
    /\ [](\A k \in DOMAIN handled :
             handled[k].skipped \/ handled[k].error => handled[k].businesses = 0)
    /\ [][run' = run =>
             /\ totalProcessed' >= totalProcessed
             /\ totalSkipped' >= totalSkipped
             /\ totalErrors' >= totalErrors
             /\ totalBusinesses' >= totalBusinesses
             /\ (totalProcessed' + totalSkipped' + totalErrors')
                  - (totalProcessed + totalSkipped + totalErrors) = Len(handled') - Len(handled)
             /\ Len(handled') - Len(handled) \in {0, 1} ]_vars

\* a finished second run that skipped a town and processed another with businesses,
\* after a first run in which a town failed
C10_Witness ==
    /\ pc = "done"
    /\ totalProcessed >= 1
    /\ totalSkipped >= 1
    /\ totalBusinesses >= 2
    /\ prevSummary # <<>>
    /\ prevSummary[1].errors >= 1

-----------------------------------------------------------------------------
(* Properties of the pacing of the batch loop *)

IsPrefix(s, t) == Len(s) <= Len(t) /\ s = SubSeq(t, 1, Len(s))
Count(s, x) == Cardinality({k \in DOMAIN s : s[k] = x})
Ceil(n, d) == (n + d - 1) \div d

\* the calls and sleeps of a run over n towns, in consecutive groups of BATCH_SIZE:
\* each town, one per-item delay, and after the last town of a group that is not
\* the last group one longer delay
PacedTimeline(n) ==
    LET upTo[k \in 0..n] ==
            IF k = 0 THEN <<>>
            ELSE upTo[k - 1] \o <<Call(k), Sleep(RATE_LIMIT_MS)>>
                            \o (IF k % BATCH_SIZE = 0 /\ k < n
                                THEN <<Sleep(BATCH_PAUSE_MS)>> ELSE <<>>)
    IN  upTo[n]

\* C11: towns are handled in consecutive groups of BATCH_SIZE; one per-item delay
\* follows every town, whatever processTown returned, before the next town starts;
\* the longer delay occurs once between two consecutive groups and never after the
\* last, so n towns incur n per-item delays and ceil(n / BATCH_SIZE) - 1 longer
\* delays (none when n is 0).
C11_Pacing ==
    /\ IsPrefix(timeline, PacedTimeline(Len(towns)))
    /\ pc = "sleep" => timeline[Len(timeline)] = Call(Len(handled))
    /\ pc = "done" =>
           /\ timeline = PacedTimeline(Len(towns))
           /\ Len(handled) = Len(towns)
           /\ Count(timeline, Sleep(RATE_LIMIT_MS)) = Len(towns)
           /\ Count(timeline, Sleep(BATCH_PAUSE_MS)) =
                  IF Len(towns) = 0 THEN 0 ELSE Ceil(Len(towns), BATCH_SIZE) - 1

\* a finished run over three groups, the last of one town, in which a town was
\* skipped, a town was processed and a town failed
C11_Witness ==
    /\ pc = "done"
    /\ Len(towns) = 2 * BATCH_SIZE + 1
    /\ Count(timeline, Sleep(BATCH_PAUSE_MS)) = 2
    /\ \E a, b, c \in DOMAIN handled :
           /\ handled[a].skipped
           /\ handled[b].error
           /\ ~handled[c].skipped /\ ~handled[c].error

-----------------------------------------------------------------------------
(* Properties of the per-town files *)

Ended == pc \in {"done", "fatal", "killed"}

\* C12: after any sequence of runs from empty storage, runs with failed writes and
\* interrupted runs included, every town with a data file has its content stub, and
\* no town counted as errored has a data file (so that a rerun retries it).
C12_ArtifactPairs ==
    Ended =>
        /\ \A s \in DOMAIN dataFiles : s \in DOMAIN contentFiles
        /\ \A k \in DOMAIN handled : handled[k].error => ~existsSync(handled[k].slug)

====
